---- MODULE Spec2Model ----
(***************************************************************************)
(* kinderdisco: the modulation engine of src/app.rs and the UI handlers of *)
(* src/main.rs.                                                            *)
(*                                                                         *)
(* Two kinds of thread run the program.  The UI thread runs                *)
(* eframe::App::update once per frame: poll, the draw_connected handlers,  *)
(* update_data.  Every Modulator::new spawns one async-std task; the tasks *)
(* run on executor threads in parallel with the UI thread and with each    *)
(* other.  A task's cycle (read lock, sampling, the blocking               *)
(* set_light_state calls) has no await in it, so the only suspend point of *)
(* a task is its sleep.                                                    *)
(***************************************************************************)
EXTENDS Integers, Sequences, FiniteSets, TLC

VARIABLES
    bridge,             \* App.bridge is Some
    lights,             \* App.lights: light id -> DiscoLight.on, for the known lights
    error,              \* App.error is Some
    data,               \* App.data, the draft config the sliders edit
    async_data,         \* App.async_data, the value inside the RwLock
    sync_mode,          \* App.sync_mode
    modulators,         \* App.modulators: the tasks whose oneshot Sender is alive
    rebuild_modulators, \* App.rebuild_modulators
    lock,               \* the RwLock of async_data: its readers and its writer
    tasks,              \* the spawned tasks: position, bound lights, cycle locals
    ui_pc,              \* the UI thread's position inside update
    edits,              \* slider and checkbox edits of the draft made so far
    call                \* one call of rand_range: its inputs and its result

vars == <<bridge, lights, error, data, async_data, sync_mode, modulators,
          rebuild_modulators, lock, tasks, ui_pc, edits, call>>

---------------------------------------------------------------------------
\* Bounds of the model.

\* The bridge's color lights are 1..NumLights.
NumLights == 2
\* At most MaxTasks tasks are spawned in one behaviour of Spec, and at most
\* CfgTasks in one behaviour of SpecCfg.
MaxTasks == 2
CfgTasks == 1
\* At most MaxEdits edits of the draft config are made in one behaviour of
\* SpecCfg.
MaxEdits == 1
\* A raw value read from the random source by a task is in 0..MaxRaw.
MaxRaw == 1
\* Slider positions tried: the lowest SliderEdge + 1 ones and the highest one.
SliderEdge == 0
\* Inputs of a lone rand_range call: within Edge of 0, of the middle and of
\* the maximum of the type.
Edge == 1

---------------------------------------------------------------------------
\* Data (app.rs 22-41) and the integer types of its ranges.

Min(a, b) == IF a <= b THEN a ELSE b

Max(a, b) == IF a >= b THEN a ELSE b

U8Bits == 8
U16Bits == 16

RECURSIVE Pow2(_)
Pow2(n) == IF n = 0 THEN 1 ELSE 2 * Pow2(n - 1)

MaxOf(bits) == Pow2(bits) - 1

Range(s, e) == [start |-> s, end |-> e]

DefaultData ==
    [r |-> Range(0, 255), g |-> Range(0, 255), b |-> Range(0, 255),
     time |-> Range(1, 10), fade |-> FALSE]

SyncModes == {"None", "Time", "TimeAndColor"}

LightIds == 1 .. NumLights

TaskIds == 1 .. Max(MaxTasks, CfgTasks)

---------------------------------------------------------------------------
\* rand_range (app.rs 54-70) on an unsigned type of `bits` bits.  `raw` is
\* the value rng.read::<T>() returns.  With overflow checks on (the debug
\* profile) an overflowing - or + panics; with them off (the release
\* profile) it wraps modulo 2^bits.

Panic == [panic |-> TRUE, val |-> 0]

Value(v) == [panic |-> FALSE, val |-> v]

\* a - b in T
CheckedSub(bits, a, b, checks) ==
    IF a >= b THEN Value(a - b)
    ELSE IF checks THEN Panic
    ELSE Value(a - b + Pow2(bits))

\* a + b in T
CheckedAdd(bits, a, b, checks) ==
    IF a + b <= MaxOf(bits) THEN Value(a + b)
    ELSE IF checks THEN Panic
    ELSE Value((a + b) % Pow2(bits))

rand_range_inclusive(bits, range, raw, checks) ==
    LET span == CheckedSub(bits, range.end, range.start, checks)
    IN  IF span.panic THEN Panic
        ELSE CheckedAdd(bits, range.start, raw % (span.val + 1), checks)

rand_range(bits, range, raw, checks) ==
    LET span == CheckedSub(bits, range.end, range.start, checks)
    IN  IF span.panic THEN Panic
        ELSE IF span.val = 0 THEN Value(range.start)
        ELSE CheckedAdd(bits, range.start, raw % span.val, checks)

---------------------------------------------------------------------------
\* update_start, update_end (main.rs 24-36) and the slider handlers of
\* draw_connected (main.rs 79-129).

update_start_noop(range) == range

update_start(range) == [range EXCEPT !.start = Min(range.start, range.end)]

update_end_noop(range) == range

update_end(range) == [range EXCEPT !.end = Max(range.start, range.end)]

\* The "min" slider wrote v into range.start and reported changed().
SliderMin(range, v) == update_end([range EXCEPT !.start = v])

\* The "max" slider wrote v into range.end and reported changed().
SliderMax(range, v) == update_start([range EXCEPT !.end = v])

Channels == {"r", "g", "b", "time"}

\* The width of a channel's integer type: Range<u8> or Range<u16>.
ChannelBits(ch) == IF ch = "time" THEN U16Bits ELSE U8Bits

\* The positions a slider of the channel offers, 0..=255 or 1..=100.
SliderLow(ch) == IF ch = "time" THEN 1 ELSE 0

SliderHigh(ch) == IF ch = "time" THEN 100 ELSE 255

SliderVals(ch) ==
    (SliderLow(ch) .. (SliderLow(ch) + SliderEdge)) \cup {SliderHigh(ch)}

---------------------------------------------------------------------------
\* The state of one spawned task (Modulator::new, app.rs 138-155, running
\* modify_lights_same_color or modify_lights_different_colors).
\*   pc        "none" (slot not used yet), "spawned" (not polled yet),
\*             "cycle" (inside the block that holds the read guard),
\*             "sleeping" (suspended in task::sleep), "stopped"
\*   dropped_at_poll  the Sender was already dropped when the poll that
\*             runs the current cycle began
\*   idx       how many of light_ids the for loop has dispatched to
\*   modifier  the StateModifier built before the loop (same_color only)
\*   snap      the Data the read guard showed when the cycle began
\*   last      the last set_light_state call of this cycle and its result
\* Optional values are sequences of length 0 or 1.

NoTask ==
    [pc |-> "none", sync_mode |-> "None", light_ids |-> <<>>,
     dropped_at_poll |-> FALSE, idx |-> 0, time |-> 0, transition_time |-> 0, modifier |-> <<>>,
     snap |-> <<>>, last |-> <<>>]

Spawned(mode, ids) ==
    [NoTask EXCEPT !.pc = "spawned", !.sync_mode = mode, !.light_ids = ids]

StoppedTask == [NoTask EXCEPT !.pc = "stopped"]

\* Tasks that exist and have not returned from their future.
Live == {t \in TaskIds : tasks[t].pc \notin {"none", "stopped"}}

\* The oneshot Sender of task t was dropped: its Modulator left App.modulators.
Cancelled(t) == tasks[t].pc # "none" /\ t \notin modulators

\* The set of a sequence's elements.
Elems(seq) == {seq[i] : i \in 1 .. Len(seq)}

\* The lights flagged on (the filter of app.rs 290-295).
OnLights == {l \in DOMAIN lights : lights[l]}

\* Every order in which HashMap::iter may yield the set S.
Orders(S) ==
    {seq \in [1 .. Cardinality(S) -> S] :
        \A i, j \in 1 .. Cardinality(S) : i # j => seq[i] # seq[j]}

---------------------------------------------------------------------------
\* App::default (app.rs 180-196).  No rand_range call is in progress.

NoCall == [pc |-> "none", bits |-> 0, range |-> Range(0, 0), raw |-> 0,
           checks |-> FALSE, result |-> Value(0)]

Init ==
    /\ bridge = FALSE
    /\ lights = <<>>
    /\ error = FALSE
    /\ data = DefaultData
    /\ async_data = DefaultData
    /\ sync_mode = "None"
    /\ modulators = {}
    /\ rebuild_modulators = FALSE
    /\ lock = [readers |-> {}, writer |-> FALSE]
    /\ tasks = [t \in TaskIds |-> NoTask]
    /\ ui_pc = "ui"
    /\ edits = 0
    /\ call = NoCall

---------------------------------------------------------------------------
\* App::poll (app.rs 199-232): one Signal taken from the channel.

\* Signal::Ip with no stored user: only the error is cleared.
PollIp ==
    /\ ui_pc = "ui"
    /\ ~bridge
    /\ error' = FALSE
    /\ UNCHANGED <<bridge, lights, data, async_data, sync_mode, modulators,
                   rebuild_modulators, lock, tasks, ui_pc, edits, call>>

\* Signal::Ip with a stored user, or Signal::Bridge(Some(bridge)).
PollBridge ==
    /\ ui_pc = "ui"
    /\ error' = FALSE
    /\ bridge' = TRUE
    /\ UNCHANGED <<lights, data, async_data, sync_mode, modulators,
                   rebuild_modulators, lock, tasks, ui_pc, edits, call>>

\* Signal::Lights(found): every light not in the map yet is inserted, off.
\* The bridge reports the same color lights, LightIds, every time.
PollLights ==
    /\ ui_pc = "ui"
    /\ bridge
    /\ \E found \in {LightIds} :
          lights' = [l \in (DOMAIN lights) \cup found |->
                        IF l \in DOMAIN lights THEN lights[l] ELSE FALSE]
    /\ error' = FALSE
    /\ UNCHANGED <<bridge, data, async_data, sync_mode, modulators,
                   rebuild_modulators, lock, tasks, ui_pc, edits, call>>

\* Signal::Error(e), sent by a failed discovery or registration, which the
\* screens shown without a bridge start.
PollError ==
    /\ ui_pc = "ui" /\ ~bridge
    /\ error' = TRUE
    /\ UNCHANGED <<bridge, lights, data, async_data, sync_mode, modulators,
                   rebuild_modulators, lock, tasks, ui_pc, edits, call>>

---------------------------------------------------------------------------
\* App::draw_connected (main.rs 77-159), shown while a bridge is connected.

\* An edit of the draft; the edits of SpecCfg are counted and capped.
CountEdit(counted) ==
    IF counted THEN edits < MaxEdits /\ edits' = edits + 1 ELSE edits' = edits

\* A "min" slider moved (main.rs 79-84, 92-97, 105-110, 118-123).
DrawSliderMin(counted) ==
    /\ ui_pc = "ui" /\ bridge
    /\ CountEdit(counted)
    /\ \E ch \in Channels : \E v \in SliderVals(ch) :
          /\ v # data[ch].start
          /\ data' = [data EXCEPT ![ch] = SliderMin(data[ch], v)]
    /\ UNCHANGED <<bridge, lights, error, async_data, sync_mode, modulators,
                   rebuild_modulators, lock, tasks, ui_pc, call>>

\* A "max" slider moved (main.rs 85-90, 98-103, 111-116, 124-129).
DrawSliderMax(counted) ==
    /\ ui_pc = "ui" /\ bridge
    /\ CountEdit(counted)
    /\ \E ch \in Channels : \E v \in SliderVals(ch) :
          /\ v # data[ch].end
          /\ data' = [data EXCEPT ![ch] = SliderMax(data[ch], v)]
    /\ UNCHANGED <<bridge, lights, error, async_data, sync_mode, modulators,
                   rebuild_modulators, lock, tasks, ui_pc, call>>

\* The "fade" checkbox (main.rs 130).
DrawFade(counted) ==
    /\ ui_pc = "ui" /\ bridge
    /\ CountEdit(counted)
    /\ data' = [data EXCEPT !.fade = ~data.fade]
    /\ UNCHANGED <<bridge, lights, error, async_data, sync_mode, modulators,
                   rebuild_modulators, lock, tasks, ui_pc, call>>

\* The "sync mode" combo box (main.rs 132-142): another mode is selected.
DrawSyncMode ==
    /\ ui_pc = "ui" /\ bridge
    /\ \E m \in SyncModes \ {sync_mode} : sync_mode' = m
    /\ UNCHANGED <<bridge, lights, error, data, async_data, modulators,
                   rebuild_modulators, lock, tasks, ui_pc, edits, call>>

DrawLightCheckboxNoFlag(l) ==
    /\ ui_pc = "ui" /\ bridge
    /\ l \in DOMAIN lights
    /\ lights' = [lights EXCEPT ![l] = ~lights[l]]
    /\ UNCHANGED <<bridge, error, data, async_data, sync_mode, modulators,
                   rebuild_modulators, lock, tasks, ui_pc, edits, call>>

\* The checkbox of light l (main.rs 146-154).
DrawLightCheckbox(l) ==
    /\ ui_pc = "ui" /\ bridge
    /\ l \in DOMAIN lights
    /\ lights' = [lights EXCEPT ![l] = ~lights[l]]
    /\ rebuild_modulators' = TRUE
    /\ UNCHANGED <<bridge, error, data, async_data, sync_mode, modulators,
                   lock, tasks, ui_pc, edits, call>>

---------------------------------------------------------------------------
\* App::update_data (app.rs 275-285) and App::rebuild_modulators (287-317).
\* self.async_data.write() blocks the UI thread while a read guard is out.

\* Whether RwLock::write() may return.
WriteIgnoresReaders(l) == ~l.writer

CanWrite(l) == l.readers = {} /\ ~l.writer

UpdateDataLock ==
    /\ ui_pc = "ui"
    /\ CanWrite(lock)
    /\ lock' = [lock EXCEPT !.writer = TRUE]
    /\ ui_pc' = "write"
    /\ UNCHANGED <<bridge, lights, error, data, async_data, sync_mode,
                   modulators, rebuild_modulators, tasks, edits, call>>

\* *async_data = self.data.clone(), and the write guard is dropped.
UpdateDataWrite ==
    /\ ui_pc = "write"
    /\ async_data' = data
    /\ lock' = [lock EXCEPT !.writer = FALSE]
    /\ ui_pc' = "rebuild"
    /\ UNCHANGED <<bridge, lights, error, data, sync_mode, modulators,
                   rebuild_modulators, tasks, edits, call>>

\* The Modulators that survive self.modulators.clear() (app.rs 288).
ClearKeepsAll(mods) == mods

Clear(mods) == {}

\* The light-id vectors handed to Modulator::new, for the lights `ids`
\* as the HashMap yielded them (app.rs 297-315).
GroupsAlwaysOne(mode, ids) == <<ids>>

GroupsSkipEmpty(mode, ids) ==
    IF mode = "None" THEN [i \in 1 .. Len(ids) |-> <<ids[i]>>]
    ELSE IF ids = <<>> THEN <<>> ELSE <<ids>>

GroupsTimeAsNone(mode, ids) ==
    IF mode \in {"None", "Time"} THEN [i \in 1 .. Len(ids) |-> <<ids[i]>>]
    ELSE <<ids>>

Groups(mode, ids) ==
    IF mode = "None" THEN [i \in 1 .. Len(ids) |-> <<ids[i]>>] ELSE <<ids>>

\* The slots the next n spawned tasks take.
Used == {t \in TaskIds : tasks[t].pc # "none"}

NewSlots(n) == (Cardinality(Used) + 1) .. (Cardinality(Used) + n)

\* rebuild_modulators: every Modulator is dropped, which drops its Sender;
\* with a bridge, one task is spawned per group and its Modulator kept.
\* At most `cap` tasks are spawned in all.
RebuildModulators(cap) ==
    IF bridge
    THEN \E ids \in Orders(OnLights) :
            LET groups == Groups(sync_mode, ids)
                new == NewSlots(Len(groups))
            IN  /\ new \subseteq 1 .. cap
                /\ tasks' = [t \in TaskIds |->
                                IF t \in new
                                THEN Spawned(sync_mode, groups[t - Cardinality(Used)])
                                ELSE tasks[t]]
                /\ modulators' = Clear(modulators) \cup new
    ELSE /\ modulators' = Clear(modulators)
         /\ tasks' = tasks

\* The rest of update_data (app.rs 281-284).
UpdateDataRebuild(cap) ==
    /\ ui_pc = "rebuild"
    /\ IF rebuild_modulators
       THEN RebuildModulators(cap) /\ rebuild_modulators' = FALSE
       ELSE UNCHANGED <<modulators, tasks, rebuild_modulators>>
    /\ ui_pc' = "ui"
    /\ UNCHANGED <<bridge, lights, error, data, async_data, sync_mode, lock,
                   edits, call>>

---------------------------------------------------------------------------
\* The task of Modulator::new (app.rs 139-154).  futures::select! polls its
\* two branches in a pseudo-random order on every poll and returns at the
\* first one that is ready.  The receiver is ready once the Sender is
\* dropped.  The loop future, when polled at its start or after its sleep
\* has expired, runs one whole cycle before it is pending again; a poll
\* that polled the loop first polls the receiver right after that cycle.

\* Color::from_rgb(rand_range(r), rand_range(g), rand_range(b)) under the
\* read guard, for three raw values (app.rs 82-86, 117-121).  The ranges a
\* task reads satisfy start <= end, so the build profile makes no difference.
Color(d, raws) ==
    [r |-> rand_range(U8Bits, d.r, raws[1], TRUE),
     g |-> rand_range(U8Bits, d.g, raws[2], TRUE),
     b |-> rand_range(U8Bits, d.b, raws[3], TRUE)]

ColorPanics(c) == c.r.panic \/ c.g.panic \/ c.b.panic

\* StateModifier::new().with_on(true).with_color(..).with_transition_time(..)
Modifier(c, tt) ==
    [on |-> TRUE, r |-> c.r.val, g |-> c.g.val, b |-> c.b.val,
     transition_time |-> tt]

\* if data.fade { time } else { 0 }  (app.rs 79, 113)
TransitionAlwaysTime(d, time) == time

TransitionTime(d, time) == IF d.fade THEN time ELSE 0

\* The match of app.rs 140-145.
SameColorNever(mode) == FALSE

SameColor(mode) == mode = "TimeAndColor"

\* A task that panicked inside its cycle.
Panicked == [NoTask EXCEPT !.pc = "panicked"]

\* Whether RwLock::read() may return.
CanRead(l) == ~l.writer

\* A poll at the start of the loop or after the sleep has expired runs the
\* first half of a cycle: data.read(), the time and, in
\* modify_lights_same_color, the one modifier (app.rs 77-87, 111-113).
\* With the Sender dropped, this is a poll that polls the loop first.
\* Raw values are drawn from R.
StartCycle(t, R) ==
    /\ tasks[t].pc \in {"spawned", "sleeping"}
    /\ CanRead(lock)
    /\ \E rt \in R : \E raws \in [1 .. 3 -> R] :
          LET time == rand_range(U16Bits, async_data.time, rt, TRUE)
              tt == TransitionTime(async_data, time.val)
              c == Color(async_data, raws)
              same == SameColor(tasks[t].sync_mode)
          IN  /\ ~same => raws = [i \in 1 .. 3 |-> 0]
              /\ IF time.panic \/ (same /\ ColorPanics(c))
                 THEN tasks' = [tasks EXCEPT ![t] = Panicked] /\ lock' = lock
                 ELSE /\ tasks' = [tasks EXCEPT ![t] =
                            [@ EXCEPT !.pc = "cycle",
                                      !.dropped_at_poll = Cancelled(t),
                                      !.idx = 0,
                                      !.time = time.val, !.transition_time = tt,
                                      !.modifier = IF same THEN <<Modifier(c, tt)>>
                                                   ELSE <<>>,
                                      !.snap = <<async_data>>, !.last = <<>>]]
                      /\ lock' = [lock EXCEPT !.readers = @ \cup {t}]
    /\ UNCHANGED <<bridge, lights, error, data, async_data, sync_mode,
                   modulators, rebuild_modulators, ui_pc, edits, call>>

DispatchAbortsOnErr(t, R) ==
    /\ tasks[t].pc = "cycle"
    /\ tasks[t].idx < Len(tasks[t].light_ids)
    /\ \E ok \in BOOLEAN :
          LET same == SameColor(tasks[t].sync_mode)
              c == Color(async_data, [i \in 1 .. 3 |-> 0])
              m == IF same THEN tasks[t].modifier[1]
                   ELSE Modifier(c, tasks[t].transition_time)
              light == tasks[t].light_ids[tasks[t].idx + 1]
          IN  tasks' = [tasks EXCEPT ![t] =
                  [@ EXCEPT !.idx = IF ok THEN @ + 1 ELSE Len(tasks[t].light_ids),
                            !.last = <<[light |-> light, modifier |-> m,
                                        ok |-> ok]>>]]
    /\ UNCHANGED <<bridge, lights, error, data, async_data, sync_mode,
                   modulators, rebuild_modulators, lock, ui_pc, edits, call>>

\* One pass of the for loop (app.rs 88-90, 114-124): the modifier, built
\* here in modify_lights_different_colors, and the blocking
\* bridge.set_light_state call, whose Result is dropped.
Dispatch(t, R) ==
    /\ tasks[t].pc = "cycle"
    /\ tasks[t].idx < Len(tasks[t].light_ids)
    /\ \E ok \in BOOLEAN : \E raws \in [1 .. 3 -> R] :
          LET same == SameColor(tasks[t].sync_mode)
              c == Color(async_data, raws)
              m == IF same THEN tasks[t].modifier[1]
                   ELSE Modifier(c, tasks[t].transition_time)
              light == tasks[t].light_ids[tasks[t].idx + 1]
          IN  /\ same => raws = [i \in 1 .. 3 |-> 0]
              /\ IF ~same /\ ColorPanics(c)
                 THEN /\ tasks' = [tasks EXCEPT ![t] = Panicked]
                      /\ lock' = [lock EXCEPT !.readers = @ \ {t}]
                 ELSE /\ tasks' = [tasks EXCEPT ![t] =
                            [@ EXCEPT !.idx = @ + 1,
                                      !.last = <<[light |-> light, modifier |-> m,
                                                  ok |-> ok]>>]]
                      /\ lock' = lock
    /\ UNCHANGED <<bridge, lights, error, data, async_data, sync_mode,
                   modulators, rebuild_modulators, ui_pc, edits, call>>

EndCycleKeepsGuard(t) ==
    /\ tasks[t].pc = "cycle"
    /\ tasks[t].idx = Len(tasks[t].light_ids)
    /\ \E loop_first \in BOOLEAN :
          /\ tasks[t].dropped_at_poll => loop_first
          /\ ~Cancelled(t) => loop_first
          /\ tasks' = [tasks EXCEPT ![t] =
                IF loop_first /\ Cancelled(t) THEN StoppedTask
                ELSE [@ EXCEPT !.pc = "sleeping", !.dropped_at_poll = FALSE,
                               !.idx = 0, !.transition_time = 0,
                               !.modifier = <<>>, !.snap = <<>>, !.last = <<>>]]
    /\ UNCHANGED <<bridge, lights, error, data, async_data, sync_mode,
                   modulators, rebuild_modulators, lock, ui_pc, edits, call>>

\* The end of the block drops the read guard and task::sleep(time * 100 ms)
\* is pending (app.rs 91-92, 125-126).  If this poll polled the loop first,
\* it polls the receiver now and returns when the Sender is dropped; if it
\* polled the receiver first, which was pending, it is pending.
EndCycle(t) ==
    /\ tasks[t].pc = "cycle"
    /\ tasks[t].idx = Len(tasks[t].light_ids)
    /\ \E loop_first \in BOOLEAN :
          /\ tasks[t].dropped_at_poll => loop_first
          /\ ~Cancelled(t) => loop_first
          /\ tasks' = [tasks EXCEPT ![t] =
                IF loop_first /\ Cancelled(t) THEN StoppedTask
                ELSE [@ EXCEPT !.pc = "sleeping", !.dropped_at_poll = FALSE,
                               !.idx = 0, !.transition_time = 0,
                               !.modifier = <<>>, !.snap = <<>>, !.last = <<>>]]
    /\ lock' = [lock EXCEPT !.readers = @ \ {t}]
    /\ UNCHANGED <<bridge, lights, error, data, async_data, sync_mode,
                   modulators, rebuild_modulators, ui_pc, edits, call>>

\* A poll finds the receiver ready before it runs a cycle (app.rs 151): the
\* spawned future returns.
Stop(t) ==
    /\ tasks[t].pc \in {"spawned", "sleeping"}
    /\ Cancelled(t)
    /\ tasks' = [tasks EXCEPT ![t] = StoppedTask]
    /\ UNCHANGED <<bridge, lights, error, data, async_data, sync_mode,
                   modulators, rebuild_modulators, lock, ui_pc, edits, call>>

---------------------------------------------------------------------------
\* Spec: the life of the tasks.  The draft config is left as it is and the
\* random source returns 0.

Poll == PollIp \/ PollBridge \/ PollLights \/ PollError

Next ==
    \/ Poll
    \/ DrawSyncMode
    \/ \E l \in LightIds : DrawLightCheckbox(l)
    \/ UpdateDataLock
    \/ UpdateDataWrite
    \/ UpdateDataRebuild(MaxTasks)
    \/ \E t \in TaskIds : StartCycle(t, {0})
    \/ \E t \in TaskIds : Dispatch(t, {0})
    \/ \E t \in TaskIds : EndCycle(t)
    \/ \E t \in TaskIds : Stop(t)

Spec == Init /\ [][Next]_vars

\* SpecCfg: the config on its way from the sliders to the commands, with
\* few tasks.
Raws == 0 .. MaxRaw

NextCfg ==
    \/ Poll
    \/ DrawSliderMin(TRUE)
    \/ DrawSliderMax(TRUE)
    \/ DrawFade(TRUE)
    \/ DrawSyncMode
    \/ \E l \in LightIds : DrawLightCheckbox(l)
    \/ UpdateDataLock
    \/ UpdateDataWrite
    \/ UpdateDataRebuild(CfgTasks)
    \/ \E t \in TaskIds : StartCycle(t, Raws)
    \/ \E t \in TaskIds : Dispatch(t, Raws)
    \/ \E t \in TaskIds : EndCycle(t)
    \/ \E t \in TaskIds : Stop(t)

SpecCfg == Init /\ [][NextCfg]_vars

\* SpecUI: the draft config alone, edited any number of times.
NextUI ==
    \/ PollBridge
    \/ DrawSliderMin(FALSE)
    \/ DrawSliderMax(FALSE)
    \/ DrawFade(FALSE)

SpecUI == Init /\ [][NextUI]_vars

\* SpecPub: the draft config, edited any number of times, and its way into
\* the shared config.  No light is switched on, so no task runs.
NextPub ==
    \/ PollBridge
    \/ DrawSliderMin(FALSE)
    \/ DrawSliderMax(FALSE)
    \/ DrawFade(FALSE)
    \/ UpdateDataLock
    \/ UpdateDataWrite
    \/ UpdateDataRebuild(CfgTasks)

SpecPub == Init /\ [][NextPub]_vars

\* SpecRand: one call of rand_range on u8 or u16, in either build profile.
Half(bits) == Pow2(bits - 1)

Inputs(bits) ==
    (0 .. Edge) \cup ((Half(bits) - Edge) .. (Half(bits) - 1 + Edge))
        \cup ((MaxOf(bits) - Edge) .. MaxOf(bits))

InitRand ==
    /\ bridge = FALSE
    /\ lights = <<>>
    /\ error = FALSE
    /\ data = DefaultData
    /\ async_data = DefaultData
    /\ sync_mode = "None"
    /\ modulators = {}
    /\ rebuild_modulators = FALSE
    /\ lock = [readers |-> {}, writer |-> FALSE]
    /\ tasks = [t \in TaskIds |-> NoTask]
    /\ ui_pc = "ui"
    /\ edits = 0
    /\ \E bits \in {U8Bits, U16Bits} : \E checks \in BOOLEAN :
       \E s \in Inputs(bits) : \E e \in Inputs(bits) : \E raw \in Inputs(bits) :
          call = [pc |-> "called", bits |-> bits, range |-> Range(s, e),
                  raw |-> raw, checks |-> checks, result |-> Value(0)]

CallRandRange ==
    /\ call.pc = "called"
    /\ call' = [call EXCEPT
                  !.pc = "returned",
                  !.result = rand_range(call.bits, call.range, call.raw,
                                        call.checks)]
    /\ UNCHANGED <<bridge, lights, error, data, async_data, sync_mode,
                   modulators, rebuild_modulators, lock, tasks, ui_pc, edits>>

NextRand == CallRandRange

SpecRand == InitRand /\ [][NextRand]_vars

---------------------------------------------------------------------------
\* Properties.

\* The lights a task is bound to.
Bound(t) == Elems(tasks[t].light_ids)

\* The step is the end of update_data (app.rs 281-284).
UpdateDataEnds == ui_pc = "rebuild" /\ ui_pc' = "ui"

\* The step is the end of an update_data that rebuilds.
RebuildStep == UpdateDataEnds /\ rebuild_modulators

\* The tasks a step spawns.
SpawnedNow == {t \in TaskIds : tasks[t].pc = "none" /\ tasks'[t].pc # "none"}

\* C1: every light is bound to at most one task that has not stopped yet.
C1_OneLiveTaskPerLight ==
    \A l \in LightIds : Cardinality({t \in Live : l \in Bound(t)}) <= 1

\* C2: a task whose Sender was dropped while it was not inside a cycle
\* (spawned and not polled yet, or in its sleep) starts no cycle.
C2_NoCycleAfterCancel ==
    [][\A t \in TaskIds :
          (Cancelled(t) /\ tasks[t].pc \in {"spawned", "sleeping"})
              => tasks'[t].pc # "cycle"]_vars

\* v is a value rand_range can return for the range.
InRange(v, range) ==
    IF range.end > range.start THEN range.start <= v /\ v < range.end
    ELSE v = range.start

FromConfig(m, d, tt) ==
    /\ InRange(m.r, d.r) /\ InRange(m.g, d.g) /\ InRange(m.b, d.b)
    /\ m.transition_time = tt

\* C3: while a task is inside a cycle the shared config is the one the cycle
\* began under, and the time, the transition time and every color the cycle
\* has used so far were drawn from that config.
C3_CycleUsesOneConfig ==
    \A t \in TaskIds :
        tasks[t].pc = "cycle" =>
            LET d == tasks[t].snap[1]
                tt == IF d.fade THEN tasks[t].time ELSE 0
            IN  /\ async_data = d
                /\ InRange(tasks[t].time, d.time)
                /\ tasks[t].transition_time = tt
                /\ \A i \in 1 .. Len(tasks[t].modifier) :
                      FromConfig(tasks[t].modifier[i], d, tt)
                /\ \A i \in 1 .. Len(tasks[t].last) :
                      FromConfig(tasks[t].last[i].modifier, d, tt)

\* A task is past the first dispatch of a cycle while the draft already
\* differs from the shared config the cycle runs under.
C3_Witness ==
    \E t \in TaskIds :
        /\ tasks[t].pc = "cycle" /\ Len(tasks[t].last) = 1
        /\ data # async_data /\ ui_pc = "ui"

\* C4: a returned call of rand_range on a range with end <= start did not
\* panic and returned range.start.
C4_EmptyRangeReturnsStart ==
    (call.pc = "returned" /\ call.range.end <= call.range.start)
        => call.result = Value(call.range.start)

\* C5: a rebuild leaves in App.modulators exactly the tasks it spawns, and
\* so drops the Sender of every task there was; SyncMode::None spawns one
\* task per light flagged on, bound to that light alone, every other mode
\* one task bound to all the lights flagged on; no other task is touched.
C5_RebuildPartitions ==
    [][RebuildStep =>
          /\ modulators' = SpawnedNow
          /\ \A t \in Used : t \notin modulators'
          /\ \A t \in TaskIds \ SpawnedNow : tasks'[t] = tasks[t]
          /\ \A t \in SpawnedNow :
                /\ tasks'[t].pc = "spawned"
                /\ tasks'[t].sync_mode = sync_mode
                /\ Elems(tasks'[t].light_ids) \subseteq OnLights
          /\ sync_mode = "None" =>
                /\ Cardinality(SpawnedNow) = Cardinality(OnLights)
                /\ \A l \in OnLights :
                      \E t \in SpawnedNow : tasks'[t].light_ids = <<l>>
          /\ sync_mode # "None" =>
                /\ Cardinality(SpawnedNow) = 1
                /\ \A t \in SpawnedNow :
                      /\ Elems(tasks'[t].light_ids) = OnLights
                      /\ Len(tasks'[t].light_ids) = Cardinality(OnLights)
    ]_vars

\* A rebuild in SyncMode::None has spawned one task for each of two lights.
C5_Witness ==
    /\ ui_pc = "ui" /\ sync_mode = "None"
    /\ Cardinality(modulators) = 2
    /\ \A t \in modulators : Len(tasks[t].light_ids) = 1

\* The mode and lights of the task with record r.
GroupOf(r) == <<r.sync_mode, Elems(r.light_ids)>>

\* The groups a rebuild under mode `mode` makes of the lights S.
Partition(mode, S) ==
    IF mode = "None" THEN {<<mode, {l}>> : l \in S} ELSE {<<mode, S>>}

\* The tasks with a Sender are what a rebuild under the current mode and
\* on flags leaves: one task for each group.
AsRebuilt ==
    /\ {GroupOf(tasks[t]) : t \in modulators} = Partition(sync_mode, OnLights)
    /\ Cardinality(modulators) = Cardinality(Partition(sync_mode, OnLights))

\* C6: a rebuild made in the state a rebuild leaves, with the on flags and
\* the mode as they were, leaves the same groups, each bound to one new
\* task, and has dropped the Sender of every task of the first rebuild.
C6_RebuildIdempotent ==
    [][(RebuildStep /\ AsRebuilt) =>
          /\ {GroupOf(tasks'[t]) : t \in modulators'}
                = {GroupOf(tasks[t]) : t \in modulators}
          /\ Cardinality(modulators') = Cardinality(modulators)
          /\ modulators' \cap modulators = {}
          /\ modulators' \subseteq SpawnedNow
    ]_vars

\* Two rebuilds were made under the same mode with the same light on: the
\* task of the first has lost its Sender, the task of the second has the
\* same group.
C6_Witness ==
    /\ ui_pc = "ui" /\ AsRebuilt
    /\ \E old \in Live \ modulators : \E new \in modulators :
          /\ GroupOf(tasks[old]) = GroupOf(tasks[new])
          /\ tasks[new].light_ids # <<>>

\* C7: a step that flips an on flag flips one, sets rebuild_modulators and
\* changes nothing else; the Senders and the spawned tasks change only in
\* update_data, which spawns the tasks of one rebuild if the flag is set,
\* none if not, and leaves the flag cleared.
C7_ToggleDefersRebuild ==
    [][/\ (lights' # lights /\ DOMAIN lights' = DOMAIN lights) =>
             /\ Cardinality({l \in DOMAIN lights : lights'[l] # lights[l]}) = 1
             /\ rebuild_modulators'
             /\ UNCHANGED <<bridge, error, data, async_data, sync_mode,
                            modulators, lock, tasks, ui_pc>>
       /\ (modulators' # modulators \/ SpawnedNow # {}) => RebuildStep
       /\ UpdateDataEnds =>
             /\ ~rebuild_modulators'
             /\ Cardinality(SpawnedNow) =
                   IF rebuild_modulators
                   THEN Cardinality(Partition(sync_mode, OnLights))
                   ELSE 0
    ]_vars

\* Both lights were switched on and update_data has not run since: the
\* flag is set and no task exists.
C7_Witness ==
    /\ rebuild_modulators /\ OnLights = LightIds /\ Used = {}

\* C8: a set_light_state call that fails leaves the task in its cycle, one
\* light further in light_ids, with its sleep time, its bound lights and
\* App.error as they were; the task then leaves the cycle as after a call
\* that succeeded, into its sleep unless its Sender was dropped.
C8_FailureKeepsFlow ==
    [][\A t \in TaskIds :
          /\ (/\ tasks[t].pc = "cycle" /\ tasks'[t] # tasks[t]
              /\ Len(tasks'[t].last) = 1 /\ ~tasks'[t].last[1].ok) =>
                /\ tasks'[t].pc = "cycle"
                /\ tasks'[t].idx = tasks[t].idx + 1
                /\ tasks'[t].last[1].light = tasks[t].light_ids[tasks'[t].idx]
                /\ tasks'[t].time = tasks[t].time
                /\ tasks'[t].light_ids = tasks[t].light_ids
                /\ error' = error
          /\ (/\ tasks[t].pc = "cycle" /\ tasks'[t] # tasks[t]
              /\ Len(tasks[t].last) = 1 /\ ~tasks[t].last[1].ok
              /\ tasks[t].idx = Len(tasks[t].light_ids)) =>
                /\ tasks'[t].pc \in {"sleeping", "stopped"}
                /\ ~Cancelled(t) =>
                      /\ tasks'[t].pc = "sleeping"
                      /\ tasks'[t].time = tasks[t].time
    ]_vars

\* The call for the first of two bound lights has failed and the task is
\* in its cycle, about to call for the second.
C8_Witness ==
    \E t \in TaskIds :
        /\ tasks[t].pc = "cycle" /\ Len(tasks[t].light_ids) = 2
        /\ tasks[t].idx = 1 /\ ~tasks[t].last[1].ok

\* C9: every range of the draft has start <= end; when an edit leaves a
\* start above the end there was, the end is that start, and when it leaves
\* an end below the start there was, the start is that end.
C9_ClampKeepsOrder ==
    [][\A ch \in Channels :
          /\ data'[ch].start <= data'[ch].end
          /\ data'[ch].start > data[ch].end => data'[ch].end = data'[ch].start
          /\ data'[ch].end < data[ch].start => data'[ch].start = data'[ch].end
    ]_vars

\* A "min" edit above the max has raised the max of time, and a "max" edit
\* below the min has lowered the min of r.
C9_Witness ==
    /\ data.time = Range(SliderHigh("time"), SliderHigh("time"))
    /\ data.r = Range(0, 0)

\* C10: a returned call of rand_range on a range with end > start did not
\* panic, in the build that panics on overflow too, and returned a value v
\* with start <= v < end.
C10_ResultInRange ==
    (call.pc = "returned" /\ call.range.end > call.range.start) =>
        /\ ~call.result.panic
        /\ call.range.start <= call.result.val
        /\ call.result.val < call.range.end

\* A 16-bit call in the build that panics on overflow returned the last
\* value of a range that ends at the maximum of the type.
C10_Witness ==
    /\ call.pc = "returned" /\ call.bits = U16Bits /\ call.checks
    /\ call.range.end = MaxOf(U16Bits)
    /\ call.result.val = call.range.end - 1
    /\ call.result.val > call.range.start

\* C11: a task of SyncMode::TimeAndColor builds one modifier per cycle, with
\* on set and the cycle's transition time; every step inside the cycle
\* sends that modifier, unchanged, to the next bound light, and the cycle
\* ends only after every bound light was sent it.
C11_SyncedCycleOneSample ==
    [][\A t \in TaskIds :
          (/\ tasks[t].sync_mode = "TimeAndColor" /\ tasks[t].pc = "cycle"
           /\ tasks'[t] # tasks[t]) =>
                /\ Len(tasks[t].modifier) = 1
                /\ tasks[t].modifier[1].on
                /\ tasks[t].modifier[1].transition_time
                      = tasks[t].transition_time
                /\ tasks'[t].pc = "cycle" =>
                      /\ tasks'[t].modifier = tasks[t].modifier
                      /\ tasks'[t].idx = tasks[t].idx + 1
                      /\ Len(tasks'[t].last) = 1
                      /\ tasks'[t].last[1].light
                            = tasks[t].light_ids[tasks[t].idx + 1]
                      /\ tasks'[t].last[1].modifier = tasks[t].modifier[1]
                /\ tasks'[t].pc # "cycle" =>
                      tasks[t].idx = Len(tasks[t].light_ids)
    ]_vars

\* A TimeAndColor task has sent both of its lights a color drawn with a
\* raw value other than 0.
C11_Witness ==
    \E t \in TaskIds :
        /\ tasks[t].sync_mode = "TimeAndColor" /\ tasks[t].pc = "cycle"
        /\ Len(tasks[t].light_ids) = 2 /\ tasks[t].idx = 2
        /\ tasks[t].last[1].modifier.r = 1

\* A task is inside the for loop of its cycle, with a set_light_state call
\* still to make or to return.
InDispatch(t) ==
    tasks[t].pc = "cycle" /\ tasks[t].idx < Len(tasks[t].light_ids)

\* C12: while a task is inside its dispatch loop, an update_data that the UI
\* thread starts is not blocked at async_data.write(): the lock has no
\* reader and no writer.
C12_DispatchNeverBlocksPublish ==
    (ui_pc = "ui" /\ \E t \in TaskIds : InDispatch(t)) => CanWrite(lock)

\* C13 as stated: a rebuild under SyncMode::Time with some light flagged on
\* spawns what a rebuild under SyncMode::None spawns for the same on flags,
\* one task per light flagged on, bound to that light alone.
C13_TimeAsNone ==
    [][(RebuildStep /\ sync_mode = "Time" /\ OnLights # {}) =>
          /\ Cardinality(SpawnedNow) = Cardinality(OnLights)
          /\ \A l \in OnLights :
                \E t \in SpawnedNow : tasks'[t].light_ids = <<l>>
    ]_vars

\* C13 as amended: a rebuild under SyncMode::Time spawns one task bound to
\* all the lights flagged on, as under TimeAndColor; a cycle of that task
\* builds no modifier before its loop and keeps one time and one transition
\* time while every step inside it sends the next bound light a modifier of
\* its own, drawn from the shared config, as under None.
C13_TimeSharesTimeOnly ==
    [][/\ (RebuildStep /\ sync_mode = "Time") =>
             /\ Cardinality(SpawnedNow) = 1
             /\ \A t \in SpawnedNow :
                   /\ tasks'[t].sync_mode = "Time"
                   /\ Elems(tasks'[t].light_ids) = OnLights
                   /\ Len(tasks'[t].light_ids) = Cardinality(OnLights)
       /\ \A t \in TaskIds :
             (/\ tasks[t].sync_mode \in {"Time", "None"}
              /\ tasks[t].pc = "cycle" /\ tasks'[t].pc = "cycle"
              /\ tasks'[t] # tasks[t]) =>
                   /\ tasks[t].modifier = <<>> /\ tasks'[t].modifier = <<>>
                   /\ tasks'[t].time = tasks[t].time
                   /\ tasks'[t].transition_time = tasks[t].transition_time
                   /\ tasks'[t].idx = tasks[t].idx + 1
                   /\ tasks'[t].last[1].light
                         = tasks[t].light_ids[tasks[t].idx + 1]
                   /\ tasks'[t].last[1].modifier.on
                   /\ FromConfig(tasks'[t].last[1].modifier, async_data,
                                 tasks[t].transition_time)
    ]_vars

\* A task of SyncMode::Time bound to two lights has sent the second one a
\* color whose red and green were drawn with different raw values.
C13_Witness ==
    \E t \in TaskIds :
        /\ tasks[t].sync_mode = "Time" /\ tasks[t].pc = "cycle"
        /\ Len(tasks[t].light_ids) = 2 /\ tasks[t].idx = 2
        /\ tasks[t].last[1].modifier.r = 1
        /\ tasks[t].last[1].modifier.g = 0

\* C14: a task that has stopped stays stopped, and a task whose Sender was
\* dropped stops no later than its next suspend point: when it leaves a
\* cycle for its sleep with the Sender dropped, it has stopped.
C14_StopsByNextSleep ==
    [][\A t \in TaskIds :
          /\ tasks[t].pc = "stopped" => tasks'[t].pc = "stopped"
          /\ (Cancelled(t) /\ tasks[t].pc = "cycle" /\ tasks'[t].pc # "cycle")
                => tasks'[t].pc = "stopped"
    ]_vars

\* C15: in a cycle the transition time is the cycle's one sampled time when
\* fade is set and 0 when it is not, so never more than that time; every
\* command sent carries that transition time and on = true; the sleep that
\* follows the cycle is of the same sampled time.
C15_OneTimePerCycle ==
    [][/\ \A t \in TaskIds :
          tasks'[t].pc = "cycle" =>
              LET fade == tasks'[t].snap[1].fade
                  time == tasks'[t].time
                  tt == tasks'[t].transition_time
              IN  /\ tt = IF fade THEN time ELSE 0
                  /\ tt <= time
                  /\ \A i \in 1 .. Len(tasks'[t].last) :
                        /\ tasks'[t].last[i].modifier.on
                        /\ tasks'[t].last[i].modifier.transition_time = tt
                  /\ tasks[t].pc = "cycle" => time = tasks[t].time
       /\ \A t \in TaskIds :
             (tasks[t].pc = "cycle" /\ tasks'[t].pc = "sleeping") =>
                 tasks'[t].time = tasks[t].time
    ]_vars

\* With fade set, a task has sent a command whose transition time is the
\* sampled time 2.
C15_Witness ==
    \E t \in TaskIds :
        /\ tasks[t].pc = "cycle" /\ tasks[t].snap[1].fade
        /\ tasks[t].time = 2 /\ Len(tasks[t].last) = 1
        /\ tasks[t].last[1].modifier.transition_time = 2

\* C16: the readers of the lock are the tasks inside a cycle, so a task in
\* its sleep, not polled yet or stopped holds no read guard; the write guard
\* is held only between update_data's write() and its assignment, not when
\* update_data goes on to the rebuild or has returned; with no task inside
\* a cycle, an update_data that starts is not blocked.
C16_NoGuardAcrossSleep ==
    /\ lock.readers = {t \in TaskIds : tasks[t].pc = "cycle"}
    /\ lock.writer <=> ui_pc = "write"
    /\ (ui_pc = "ui" /\ \A t \in TaskIds : tasks[t].pc # "cycle")
          => CanWrite(lock)

\* A task that has run a cycle is in its sleep while update_data holds the
\* write guard.
C16_Witness ==
    /\ ui_pc = "write" /\ lock.writer
    /\ \E t \in TaskIds : tasks[t].pc = "sleeping" /\ tasks[t].time > 0

\* The sets of lights that the tasks with a Sender are bound to.
BoundGroups == {Bound(t) : t \in modulators} \ {{}}

\* The sets the mode groups the lights S into: none if S is empty.
PartitionOf(mode, S) ==
    IF S = {} THEN {} ELSE IF mode = "None" THEN {{l} : l \in S} ELSE {S}

\* C17: when update_data returns with a bridge connected, the tasks that
\* have a Sender and a light are bound as the current sync mode groups the
\* lights now flagged on, one task for each group.
C17_TasksFollowModeAndFlags ==
    [][(UpdateDataEnds /\ bridge) =>
          /\ BoundGroups' = PartitionOf(sync_mode', OnLights')
          /\ Cardinality({t \in modulators' : Bound(t)' # {}})
                = Cardinality(PartitionOf(sync_mode', OnLights'))
    ]_vars

\* C18 as stated: every task a rebuild spawns is bound to a light, and a
\* rebuild with no light flagged on leaves no task with a Sender.
C18_NoTaskWithoutLight ==
    [][RebuildStep =>
          /\ \A t \in SpawnedNow : tasks'[t].light_ids # <<>>
          /\ OnLights = {} => modulators' = {}
    ]_vars

\* C18 as amended: a rebuild under SyncMode::None spawns only tasks bound to
\* one light, and none when no light is flagged on; a rebuild under Time or
\* TimeAndColor spawns one task in every case, bound to no light when none
\* is flagged on; a task bound to no light never sends a command.
C18_EmptyGroupTask ==
    [][/\ (RebuildStep /\ sync_mode = "None") =>
             /\ \A t \in SpawnedNow : Len(tasks'[t].light_ids) = 1
             /\ OnLights = {} => modulators' = {}
       /\ (RebuildStep /\ sync_mode # "None") =>
             /\ Cardinality(modulators') = 1
             /\ modulators' = SpawnedNow
             /\ \A t \in SpawnedNow :
                   tasks'[t].light_ids = <<>> <=> OnLights = {}
       /\ \A t \in TaskIds :
             (tasks[t].pc # "none" /\ tasks[t].light_ids = <<>>) =>
                 /\ tasks'[t].light_ids = <<>>
                 /\ tasks'[t].last = <<>> /\ tasks'[t].idx = 0
    ]_vars

\* The one task of a rebuild under TimeAndColor with no light flagged on
\* has run a cycle and is in its sleep, its Sender alive.
C18_Witness ==
    \E t \in modulators :
        /\ tasks[t].sync_mode = "TimeAndColor" /\ tasks[t].light_ids = <<>>
        /\ tasks[t].pc = "sleeping" /\ tasks[t].time > 0
        /\ OnLights = {}

\* C19: every range of the shared config has start <= end, and rand_range
\* on it, as a task calls it, returns without a panic in the build that
\* panics on overflow, whatever the raw value.
C19_StoredConfigOrdered ==
    \A ch \in Channels :
        /\ async_data[ch].start <= async_data[ch].end
        /\ \A raw \in Raws :
              ~rand_range(ChannelBits(ch), async_data[ch], raw, TRUE).panic

\* The shared config holds a time range whose end a "min" edit has raised
\* and an empty r range, and the draft has been edited again since.
C19_Witness ==
    /\ async_data.time = Range(SliderHigh("time"), SliderHigh("time"))
    /\ async_data.r = Range(0, 0)
    /\ ui_pc = "ui" /\ data # async_data

====
